---- MODULE Spec2Model ----
(***************************************************************************)
(* Device gateway of the Samsung Frame art gallery backend: the TVClient   *)
(* singleton (services/tv_client.py), its thumbnail cache                  *)
(* (services/tv_thumbnail_cache.py), the settings file                     *)
(* (services/tv_settings.py) and the /api/tv endpoints that drive them.    *)
(* Every inbound request is a task; blocking TVClient methods run on       *)
(* worker threads (asyncio.to_thread), so their steps interleave at every  *)
(* device call.                                                            *)
(***************************************************************************)
EXTENDS Integers, Sequences, FiniteSets, TLC

\* ------------------------------------------------------------------ bounds
MaxRequests == 2    \* requests the server takes in one run, each on its own task
MaxRetries == 2     \* largest retries argument a caller passes
MaxCount == 2       \* the version-query counter saturates here
MaxResponses == 3   \* datagrams that answer one M-SEARCH
MaxClients == 2     \* TVClient objects built between two process starts

None == "None"     \* Python's None where the other values are strings
NoClient == 0      \* None where the other values are indices into clients
Nothing == <<>>    \* None where the other values are tuples (bytes, versions)

Tasks == 1..MaxRequests
ContentIds == {"MY_F0001", "SAM-F0206"}

\* Version strings as character sequences: a pre-2022 TV and a 2022+ TV.
V_2_03 == <<"2", ".", "0", "3">>
V_4_3_4_0 == <<"4", ".", "3", ".", "4", ".", "0">>

\* What tv.art().get_api_version() answers on the device at ip.
DeviceVersion(ip) == IF ip = "10.0.0.5" THEN V_2_03 ELSE V_4_3_4_0

\* Thumbnail bytes as rendered by the device at ip for one content id.
Bytes(ip, id) == <<ip, id>>

VARIABLES
    started,      \* main.py start-up has run
    settingsFile, \* /app/data/tv_settings.json: <<>> (absent) or <<record>>
    clients,      \* every TVClient object constructed so far
    instance,     \* TVClient._instance: NoClient or an index into clients
    current_ip,   \* TVClient._current_ip
    cache,        \* /tmp/tv_thumbnails: content id -> bytes or Nothing
    tasks,        \* the requests, one record per task
    scan,         \* the GET /discover request and its discover_tvs() call
    modal,        \* one TvConnectionModal component, from mount to dismissal
    met,          \* the Met panel: selection, overlays, uploads in flight
    list,         \* the Met panel: query, pages, debounce timers, loads in flight
    batch,        \* one batch_fetch_objects_async call of the Met client
    drag          \* the reframe preview: image, offsets, the drag under way

gateway == <<started, settingsFile, clients, instance, current_ip, cache, tasks>>

\* the browser: the TV connection dialog and the Met panel
frontend == <<modal, met>>

\* the rest of the browser and the Met client
others == <<list, batch, drag>>

vars == <<started, settingsFile, clients, instance, current_ip, cache, tasks, scan,
          modal, met, list, batch, drag>>

\* ------------------------------------------------------------ tv_settings
TVSettings(ip, name, manual) ==
    [selected_tv_ip |-> ip, selected_tv_name |-> name, manual_entry |-> manual]

DefaultSettings == TVSettings(None, None, FALSE)

\* The selections an operator submits: a discovered TV and a manual entry.
Selections == {TVSettings("10.0.0.5", "Living Room", FALSE),
               TVSettings("10.0.0.6", "Samsung TV", TRUE)}

load_settings == IF settingsFile = <<>> THEN DefaultSettings ELSE settingsFile[1]

save_settings(s) == <<s>>

configured(s) == s.selected_tv_ip # None

\* ------------------------------------------------------- TVThumbnailCache
EmptyCache == [id \in ContentIds |-> Nothing]

Cache_get(id) == cache[id]

Cache_set(id, data) == [cache EXCEPT ![id] = data]

Cache_invalidate(id) == [cache EXCEPT ![id] = Nothing]

Cache_clear == EmptyCache

\* ------------------------------------------------------ version parsing
Digits == <<"0", "1", "2", "3", "4", "5", "6", "7", "8", "9">>

ValueError == -1

DigitValue(ch) ==
    IF \E d \in 1..10 : Digits[d] = ch
    THEN (CHOOSE d \in 1..10 : Digits[d] = ch) - 1
    ELSE ValueError

\* version.split('.')[0]
RECURSIVE SplitFirst(_)
SplitFirst(s) ==
    IF s = <<>> \/ Head(s) = "." THEN <<>> ELSE <<Head(s)>> \o SplitFirst(Tail(s))

\* int(text): the decimal value, ValueError for anything but digits
RECURSIVE IntOf(_, _)
IntOf(s, acc) ==
    IF s = <<>> THEN acc
    ELSE IF DigitValue(Head(s)) = ValueError THEN ValueError
    ELSE IntOf(Tail(s), acc * 10 + DigitValue(Head(s)))

Major(version) ==
    IF SplitFirst(version) = <<>> THEN ValueError ELSE IntOf(SplitFirst(version), 0)

NewApiThreshold == 4

IsNewApi_Above(version) ==
    IF version = Nothing \/ Major(version) = ValueError
    THEN TRUE
    ELSE Major(version) > NewApiThreshold

\* _is_new_api once get_api_version has answered `version`; Nothing stands
\* for get_api_version having raised, which the except turns into True.
IsNewApi(version) ==
    IF version = Nothing \/ Major(version) = ValueError
    THEN TRUE
    ELSE Major(version) >= NewApiThreshold

ShapeFor(version) == IF IsNewApi(version) THEN "get_thumbnail_list" ELSE "get_thumbnail"

\* ----------------------------------------------------------------- tasks
IdleTask ==
    [op |-> "idle", pc |-> "idle", c |-> NoClient, id |-> None, name |-> None,
     manual |-> FALSE, retries |-> 0, attempt |-> 0, fetches |-> 0,
     err |-> FALSE, data |-> Nothing, shape |-> None, parsed |-> Nothing,
     res |-> None, http |-> 0, pre |-> <<>>]

\* shape: the request shape of the last thumbnail call on the present handle;
\* waiting: the tasks blocked in self._lock.acquire(), in the order they came
NewClient(ip) ==
    [ip |-> ip, tv |-> FALSE, ver |-> Nothing, lock |-> 0, vq |-> 0, shape |-> None,
     waiting |-> <<>>]

\* The server takes the next request on the next task.
Idle(t) ==
    /\ started
    /\ tasks[t].pc = "idle"
    /\ \A u \in Tasks : u < t => tasks[u].pc # "idle"

SetTask(t, r) == tasks' = [tasks EXCEPT ![t] = r]

Bump(n) == IF n < MaxCount THEN n + 1 ELSE MaxCount

\* self._get_tv(): build the handle when there is none
GetTv(cl) == [cl EXCEPT !.tv = TRUE]

\* self._tv = None
DropTv(cl) == [cl EXCEPT !.tv = FALSE, !.vq = 0, !.shape = None]

\* one more tv.art().get_api_version() goes out on the handle
SendVersionQuery(cl) == [GetTv(cl) EXCEPT !.vq = Bump(cl.vq)]

\* ------------------------------------------------------- tv_discovery
SSDP_TIMEOUT == 3

\* One header line of an SSDP response.
Header(name, value) == [name |-> name, value |-> value]

\* The datagrams the network can deliver after an M-SEARCH: two services of
\* one TV, a second TV, another vendor's device, a device serving a broken
\* descriptor, a response without LOCATION, and two whose LOCATION is not
\* http://<dotted quad>.
Responses ==
    {<<Header("ST", "urn:samsung.com:device:RemoteControlReceiver:1"),
       Header("LOCATION", "http://10.0.0.5:9197/dmr")>>,
     <<Header("Location", "http://10.0.0.5:7676/rcr")>>,
     <<Header("LOCATION", "http://10.0.0.6:9197/dmr")>>,
     <<Header("LOCATION", "http://10.0.0.7:49152/description.xml")>>,
     <<Header("LOCATION", "http://10.0.0.8:9197/dmr")>>,
     <<Header("ST", "upnp:rootdevice")>>,
     <<Header("LOCATION", "http://frame.local:9197/dmr")>>,
     <<Header("LOCATION", "https://10.0.0.9:9197/dmr")>>}

\* line.upper() for the header names on the wire
UpperName(name) == IF name \in {"Location", "location"} THEN "LOCATION" ELSE name

\* _parse_ssdp_response: the value of the first LOCATION line, or None
RECURSIVE parse_ssdp_response(_)
parse_ssdp_response(response) ==
    IF response = <<>> THEN None
    ELSE IF UpperName(Head(response).name) = "LOCATION" THEN Head(response).value
    ELSE parse_ssdp_response(Tail(response))

\* _extract_ip_from_url: the dotted quad after a literal http://, or None
extract_ip_from_url(url) ==
    CASE url = "http://10.0.0.5:9197/dmr" -> "10.0.0.5"
      [] url = "http://10.0.0.5:7676/rcr" -> "10.0.0.5"
      [] url = "http://10.0.0.6:9197/dmr" -> "10.0.0.6"
      [] url = "http://10.0.0.7:49152/description.xml" -> "10.0.0.7"
      [] url = "http://10.0.0.8:9197/dmr" -> "10.0.0.8"
      [] OTHER -> None

\* A descriptor document as ET.fromstring sees it: xml is "malformed" when
\* parsing raises and "no_device" when the document has no device element.
Document(xml, manufacturer, friendlyName, modelName) ==
    [xml |-> xml, manufacturer |-> manufacturer,
     friendlyName |-> friendlyName, modelName |-> modelName]

\* What each LOCATION serves.
Descriptor(url) ==
    CASE url = "http://10.0.0.5:9197/dmr" ->
             Document("ok", "Samsung Electronics", "Living Room", "QE55LS03")
      [] url = "http://10.0.0.5:7676/rcr" ->
             Document("ok", "Samsung Electronics", "[TV] Frame", "QE55LS03")
      [] url = "http://10.0.0.6:9197/dmr" ->
             Document("ok", "SAMSUNG", "", "")
      [] url = "http://10.0.0.7:49152/description.xml" ->
             Document("ok", "LG Electronics", "Bedroom", "OLED55")
      [] OTHER -> Document("malformed", "", "", "")

\* "samsung" in manufacturer.lower()
IsSamsung(manufacturer) == manufacturer \in {"Samsung Electronics", "SAMSUNG"}

\* the body of _fetch_device_info once urlopen has read the document:
\* <<>> for None, or the one-element tuple of the dict
device_info(doc) ==
    IF doc.xml # "ok" \/ ~IsSamsung(doc.manufacturer) THEN <<>>
    ELSE <<[name |-> IF doc.friendlyName # "" THEN doc.friendlyName
                     ELSE IF doc.modelName # "" THEN doc.modelName
                     ELSE "Samsung TV",
            model |-> doc.modelName]>>

DiscoveredTV(ip, name, model) == [ip |-> ip, name |-> name, model |-> model]

\* ip in discovered
InDiscovered(discovered, ip) == \E i \in 1..Len(discovered) : discovered[i].ip = ip

\* pc: idle, setup, recv, fetch, done; discovered: the dict in insertion
\* order; url: the LOCATION being fetched; seen: the LOCATION of every
\* datagram received; failed: some descriptor could not be fetched or parsed;
\* waited: seconds the current recvfrom has blocked; ended: what ended the
\* scan; res, tvs: what GET /discover answered
IdleScan ==
    [pc |-> "idle", discovered |-> <<>>, url |-> None, seen |-> <<>>,
     failed |-> FALSE, waited |-> 0, sock |-> "unbound", ended |-> None,
     res |-> None, tvs |-> <<>>]

\* ------------------------------------------------ browser: TvConnectionModal
MaxScans == 2

\* setTimeout(() => selectTV(tvs.value[0]), 500)
AUTO_SELECT_DELAY == 500

\* Text typed into the manual field, one character per element.
ManualInputs ==
    { <<>>,
      <<"1", "0", ".", "0", ".", "0", ".", "6">>,
      <<"2", "5", "6", ".", "1", ".", "1", ".", "1">>,
      <<"1", "0", ".", "0", ".", "0">>,
      <<"t", "v">> }

\* the pieces of s between dots, as String.prototype.split(".") gives them
RECURSIVE SplitAll(_)
SplitAll(s) ==
    IF \E i \in 1..Len(s) : s[i] = "."
    THEN <<SplitFirst(s)>> \o SplitAll(SubSeq(s, Len(SplitFirst(s)) + 2, Len(s)))
    ELSE <<s>>

IsDigits(g) == \A i \in 1..Len(g) : DigitValue(g[i]) # ValueError

\* /^(\d{1,3}\.){3}\d{1,3}$/.test(text)
ipRegexTest(text) ==
    LET g == SplitAll(text)
    IN  /\ Len(g) = 4
        /\ \A i \in 1..4 : Len(g[i]) \in 1..3 /\ IsDigits(g[i])

\* A dotted quad whose four numbers all fit an octet.
ValidIPv4(text) ==
    /\ ipRegexTest(text)
    /\ \A i \in 1..4 : IntOf(SplitAll(text)[i], 0) <= 255

\* What GET /api/tv/discover may answer in data.tvs.
FoundTV(last, name) == [ip |-> <<"1", "0", ".", "0", ".", "0", ".", last>>, name |-> name]
FoundLists ==
    { <<>>,
      <<FoundTV("5", "Frame")>>,
      <<FoundTV("5", "Frame"), FoundTV("7", "Frame 2")>> }

IdleModal ==
    [mounted |-> FALSE, open |-> FALSE, tvs |-> <<>>, scanning |-> FALSE,
     connecting |-> FALSE, selectedIp |-> <<>>, manualIp |-> <<>>, error |-> None,
     discover |-> FALSE, timers |-> <<>>, posts |-> <<>>, scans |-> 0,
     connected |-> FALSE]

\* ------------------------------------------------------- browser: Met panel
MaxUploads == 2

TV_WIDTH == 3840
TV_HEIGHT == 2160

ObjectIds == {1, 2, 3}

\* width and height as GET /api/met/... lists them; <<0, 0>> when it has none
ListedSize(id) ==
    CASE id = 1 -> <<4096, 2304>>
      [] id = 2 -> <<2048, 1536>>
      [] OTHER  -> <<0, 0>>

\* what loading the image in the browser can measure; <<0, 0>> is img.onerror
MeasuredSizes == {<<5000, 4000>>, <<3840, 2000>>, <<0, 0>>}

IsLowRes(size) == size[1] < TV_WIDTH \/ size[2] < TV_HEIGHT

\* lowResImages: the selected images narrower or lower than the TV
lowResImages(m) == {id \in m.selectedIds : IsLowRes(m.size[id])}

IdleMet ==
    [size |-> [id \in ObjectIds |-> ListedSize(id)], selectedIds |-> {},
     measuring |-> <<>>, pendingUpload |-> [display |-> FALSE], showResolutionWarning |-> FALSE,
     showPreview |-> FALSE, previewLoading |-> FALSE, previews |-> 0,
     uploading |-> FALSE, posts |-> <<>>, sent |-> 0, answered |-> 0,
     uploaded |-> 0]

\* ------------------------------------------------- browser: Met panel list
MaxLoads == 3
MaxKeys == 3
MaxPages == 2

\* searchDebounceTimer = setTimeout(() => { doSearch() }, 500)
DEBOUNCE_MS == 500

\* What the search box can hold, one character per element.
SearchTexts == {<<>>, <<"m">>, <<"m", "o">>, <<"m", "o", " ">>}

\* String.prototype.trim()
RECURSIVE TrimStart(_)
TrimStart(s) == IF s # <<>> /\ Head(s) = " " THEN TrimStart(Tail(s)) ELSE s

RECURSIVE TrimEnd(_)
TrimEnd(s) ==
    IF s # <<>> /\ s[Len(s)] = " " THEN TrimEnd(SubSeq(s, 1, Len(s) - 1)) ELSE s

Trim(s) == TrimEnd(TrimStart(s))

\* the options of the medium select this model uses
Media == {"Paintings", "Prints"}

\* handle: searchDebounceTimer (0 is null); timers: the timers not yet fired or
\* cleared; fetches: the list requests awaiting their answer
IdleList ==
    [mounted |-> FALSE, searchQuery |-> <<>>, activeSearch |-> <<>>,
     selectedMedium |-> "Paintings", artwork |-> <<>>, currentPage |-> 1,
     hasMore |-> FALSE, loading |-> FALSE, loadingMore |-> FALSE,
     handle |-> 0, timers |-> <<>>, nextId |-> 1, fetches |-> <<>>,
     issued |-> 0, keys |-> 0]

\* --------------------------------------------------- Met client: batch fetch
MaxIds == 6

\* max_concurrent: int = 5
max_concurrent == 5

\* how one get_object ends: the object with or without primaryImage, None
\* (any other exception, caught), or the HTTPError it re-raises
Outcomes == {"object", "noimage", "none", "raise"}

\* at: each requested id's fetch_one is "waiting" for the semaphore,
\* "running" in its thread, or "done"; ended: how the call itself ended
IdleBatch ==
    [ids |-> {}, at |-> [id \in 1..MaxIds |-> "idle"],
     got |-> [id \in 1..MaxIds |-> None], sem |-> 0, called |-> FALSE,
     ended |-> None, processed |-> {}]

\* ---------------------------------------------- browser: the reframe preview
MaxDrags == 2

\* offsets are kept in thousandths: 500 is the 0.5 of ref(0.5)
Unit == 1000

CANVAS_WIDTH == 800
CANVAS_HEIGHT == 500

\* TARGET_RATIO = 16 / 9, as numerator and denominator
RATIO_W == 16
RATIO_H == 9

\* natural sizes of the images shown: wider than 16:9, taller, exactly 16:9
Pictures == {<<3200, 900>>, <<900, 1600>>, <<1920, 1080>>}

\* clientX / clientY of the pointer events
Points == {-400, 0, 150, 1200}

IdleDrag ==
    [src |-> <<0, 0>>, imageNaturalWidth |-> 0, imageNaturalHeight |-> 0,
     offsetX |-> Unit \div 2, offsetY |-> Unit \div 2, isDragging |-> FALSE,
     dragStartX |-> 0, dragStartY |-> 0,
     dragStartOffsetX |-> Unit \div 2, dragStartOffsetY |-> Unit \div 2,
     drags |-> 0, emitted |-> <<>>]

\* ------------------------------------------------------------------- Init
Init ==
    /\ scan = IdleScan
    /\ modal = IdleModal
    /\ met = IdleMet
    /\ list = IdleList
    /\ batch = IdleBatch
    /\ drag = IdleDrag
    /\ started = FALSE
    /\ settingsFile \in {<<>>} \cup {<<s>> : s \in Selections}
    /\ clients = <<>>
    /\ instance = NoClient
    /\ current_ip = None
    /\ cache = EmptyCache
    /\ tasks = [t \in Tasks |-> IdleTask]

\* ------------------------------------------------------------- TVClient
Switching(ip) == instance # NoClient /\ current_ip # ip

Configure_KeepsCache(ip) ==
    /\ clients' = Append(
           IF Switching(ip)
           THEN [clients EXCEPT ![instance] = DropTv(clients[instance])]
           ELSE clients,
           NewClient(ip))
    /\ cache' = cache
    /\ instance' = Len(clients) + 1
    /\ current_ip' = ip

\* TVClient.configure(ip)
Configure(ip) ==
    /\ clients' = Append(
           IF Switching(ip)
           THEN [clients EXCEPT ![instance] = DropTv(clients[instance])]
           ELSE clients,
           NewClient(ip))
    /\ cache' = IF Switching(ip) THEN Cache_clear ELSE cache
    /\ instance' = Len(clients) + 1
    /\ current_ip' = ip

Startup_AlwaysConfigures ==
    /\ ~started
    /\ started' = TRUE
    /\ Configure(load_settings.selected_tv_ip)
    /\ UNCHANGED <<frontend, others, scan, settingsFile, tasks>>

\* TVClient.initialize_from_settings(), called once from main.py
Startup ==
    /\ ~started
    /\ started' = TRUE
    /\ IF configured(load_settings)
       THEN Configure(load_settings.selected_tv_ip)
       ELSE UNCHANGED <<clients, instance, current_ip, cache>>
    /\ UNCHANGED <<frontend, others, scan, settingsFile, tasks>>

\* ---- get_status, run by GET /status and by POST /settings on a worker thread
StatusOps == {"status", "settings"}

\* get_status has its answer: GET /status returns it, POST /settings goes on
AfterStatus(r, res) ==
    [r EXCEPT !.res = res, !.pc = IF r.op = "settings" THEN "verify" ELSE "done"]

\* get_status up to its first device call: _get_tv(), tv.art().supported()
BeginStatus(t, r, cls) ==
    /\ clients' = [cls EXCEPT ![r.c] = GetTv(cls[r.c])]
    /\ SetTask(t, [r EXCEPT !.pc = "sup"])

\* GET /status
GetStatusRequest(t) ==
    /\ Idle(t)
    /\ IF instance = NoClient
       THEN /\ SetTask(t, [IdleTask EXCEPT !.op = "status", !.pc = "done",
                                           !.res = "not_configured"])
            /\ UNCHANGED clients
       ELSE BeginStatus(t, [IdleTask EXCEPT !.op = "status", !.c = instance], clients)
    /\ UNCHANGED <<frontend, others, scan, started, settingsFile, instance, current_ip, cache>>

\* supported() answered; get_api_version() asks the device unless cached
StatusSupportedOk(t) ==
    LET r == tasks[t] IN
    /\ r.op \in StatusOps /\ r.pc = "sup"
    /\ IF clients[r.c].ver = Nothing
       THEN /\ clients' = [clients EXCEPT ![r.c] = SendVersionQuery(clients[r.c])]
            /\ SetTask(t, [r EXCEPT !.pc = "vq"])
       ELSE /\ SetTask(t, AfterStatus(r, "connected"))
            /\ UNCHANGED clients
    /\ UNCHANGED <<frontend, others, scan, started, settingsFile, instance, current_ip, cache>>

\* get_api_version() answered inside get_status
StatusVersionOk(t) ==
    LET r == tasks[t] IN
    /\ r.op \in StatusOps /\ r.pc = "vq"
    /\ clients' = [clients EXCEPT ![r.c].ver = DeviceVersion(clients[r.c].ip)]
    /\ SetTask(t, AfterStatus(r, "connected"))
    /\ UNCHANGED <<frontend, others, scan, started, settingsFile, instance, current_ip, cache>>

StatusRaise_Propagates(t) ==
    LET r == tasks[t] IN
    /\ r.op \in StatusOps /\ r.pc \in {"sup", "vq"}
    /\ SetTask(t, AfterStatus(r, "raise"))
    /\ UNCHANGED <<frontend, others, scan, started, settingsFile, clients, instance, current_ip, cache>>

\* the except branch of get_status: either device call raised
StatusRaise(t) ==
    LET r == tasks[t] IN
    /\ r.op \in StatusOps /\ r.pc \in {"sup", "vq"}
    /\ clients' = [clients EXCEPT ![r.c] = [DropTv(clients[r.c]) EXCEPT !.ver = Nothing]]
    /\ SetTask(t, AfterStatus(r, "disconnected_error"))
    /\ UNCHANGED <<frontend, others, scan, started, settingsFile, instance, current_ip, cache>>

\* ---- POST /settings (set_tv_settings)
Snapshot == [instance |-> instance, current_ip |-> current_ip,
             settingsFile |-> settingsFile, cache |-> cache]

SetTvSettingsRequest(t, request) ==
    /\ Idle(t)
    /\ Configure(request.selected_tv_ip)
    /\ SetTask(t, [IdleTask EXCEPT !.op = "settings", !.pc = "probe", !.c = instance',
                                   !.name = request.selected_tv_name,
                                   !.manual = request.manual_entry,
                                   !.pre = <<Snapshot>>])
    /\ UNCHANGED <<frontend, others, scan, started, settingsFile>>

\* asyncio.to_thread(client.get_status): the probe starts on its thread
SetTvSettingsProbe(t) ==
    /\ tasks[t].op = "settings" /\ tasks[t].pc = "probe"
    /\ BeginStatus(t, tasks[t], clients)
    /\ UNCHANGED <<frontend, others, scan, started, settingsFile, instance, current_ip, cache>>

SetTvSettingsFinish_KeepsFirstSelection(t) ==
    LET r == tasks[t] IN
    /\ r.op = "settings" /\ r.pc = "verify"
    /\ IF r.res = "connected"
       THEN /\ settingsFile' = IF settingsFile = <<>>
                               THEN save_settings(TVSettings(clients[r.c].ip, r.name, r.manual))
                               ELSE settingsFile
            /\ SetTask(t, [r EXCEPT !.pc = "done", !.res = "saved"])
       ELSE /\ SetTask(t, [r EXCEPT !.pc = "done", !.res = "rejected"])
            /\ UNCHANGED settingsFile
    /\ UNCHANGED <<frontend, others, scan, started, clients, instance, current_ip, cache>>

\* after the awaited get_status: 400 when not connected, else save and answer
SetTvSettingsFinish(t) ==
    LET r == tasks[t] IN
    /\ r.op = "settings" /\ r.pc = "verify"
    /\ IF r.res = "connected"
       THEN /\ settingsFile' = save_settings(TVSettings(clients[r.c].ip, r.name, r.manual))
            /\ SetTask(t, [r EXCEPT !.pc = "done", !.res = "saved"])
       ELSE /\ SetTask(t, [r EXCEPT !.pc = "done", !.res = "rejected"])
            /\ UNCHANGED settingsFile
    /\ UNCHANGED <<frontend, others, scan, started, clients, instance, current_ip, cache>>

\* ---- get_artwork_list, set_current_artwork, delete_artwork, upload_artwork
CallOps == {"list", "select", "delete", "upload", "upload_display"}

\* require_tv_client(), then the method up to its device call
CallRequest(t, op, id) ==
    /\ Idle(t)
    /\ IF instance = NoClient
       THEN /\ SetTask(t, [IdleTask EXCEPT !.op = op, !.pc = "done",
                                           !.res = "not_configured", !.http = 503])
            /\ UNCHANGED clients
       ELSE /\ clients' = [clients EXCEPT ![instance] = GetTv(clients[instance])]
            /\ SetTask(t, [IdleTask EXCEPT !.op = op, !.pc = "call", !.c = instance,
                                           !.id = id])
    /\ UNCHANGED <<frontend, others, scan, started, settingsFile, instance, current_ip, cache>>

\* the three artwork endpoints that answer 503 when the TVClient call raises
ArtworkEndpoints == {"list", "select", "delete"}

\* tv.art().available() or []: the device lists one artwork, or none
Listed(answer) == IF answer = None THEN <<>> ELSE <<answer>>

CallOk_KeepsThumbnail(t, answer) ==
    LET r == tasks[t] IN
    /\ r.op \in CallOps /\ r.pc = "call"
    /\ IF r.op = "upload_display" /\ answer # None
       THEN SetTask(t, [r EXCEPT !.pc = "call2", !.id = answer])
       ELSE SetTask(t, [r EXCEPT !.pc = "done", !.res = "ok", !.http = 200,
                                 !.data = IF r.op = "list" THEN Listed(answer) ELSE r.data])
    /\ UNCHANGED <<frontend, others, scan, started, settingsFile, clients, instance, current_ip, cache>>

\* the device answered with `answer` (a content id or None);
\* get_artwork_list returns what is listed, delete_artwork drops the cached
\* thumbnail, and upload_artwork with display selects the new content id
\* when it got one
CallOk(t, answer) ==
    LET r == tasks[t] IN
    /\ r.op \in CallOps /\ r.pc = "call"
    /\ cache' = IF r.op = "delete" THEN Cache_invalidate(r.id) ELSE cache
    /\ IF r.op = "upload_display" /\ answer # None
       THEN SetTask(t, [r EXCEPT !.pc = "call2", !.id = answer])
       ELSE SetTask(t, [r EXCEPT !.pc = "done", !.res = "ok", !.http = 200,
                                 !.data = IF r.op = "list" THEN Listed(answer) ELSE r.data])
    /\ UNCHANGED <<frontend, others, scan, started, settingsFile, clients, instance, current_ip>>

\* select_image after an upload answered
SelectAfterUploadOk(t) ==
    LET r == tasks[t] IN
    /\ r.op = "upload_display" /\ r.pc = "call2"
    /\ SetTask(t, [r EXCEPT !.pc = "done", !.res = "ok", !.http = 200])
    /\ UNCHANGED <<frontend, others, scan, started, settingsFile, clients, instance, current_ip, cache>>

CallRaise_Unmapped(t) ==
    LET r == tasks[t] IN
    /\ r.op \in CallOps /\ r.pc \in {"call", "call2"}
    /\ SetTask(t, [r EXCEPT !.pc = "done", !.res = "raise", !.http = 500])
    /\ UNCHANGED <<frontend, others, scan, started, settingsFile, clients, instance, current_ip, cache>>

\* the device call raised: nothing catches it inside TVClient; the artwork
\* endpoints turn it into a 503, POST /upload into a failed entry of its
\* results
CallRaise(t) ==
    LET r == tasks[t] IN
    /\ r.op \in CallOps /\ r.pc \in {"call", "call2"}
    /\ SetTask(t, [r EXCEPT !.pc = "done", !.res = "raise",
                            !.http = IF r.op \in ArtworkEndpoints THEN 503 ELSE 200])
    /\ UNCHANGED <<frontend, others, scan, started, settingsFile, clients, instance, current_ip, cache>>

\* ---- get_thumbnail(content_id, retries)
ThumbnailRequest_IgnoresCache(t, id, retries) ==
    /\ Idle(t)
    /\ IF instance = NoClient
       THEN SetTask(t, [IdleTask EXCEPT !.op = "thumbnail", !.pc = "done",
                                        !.res = "not_configured"])
       ELSE SetTask(t, [IdleTask EXCEPT !.op = "thumbnail", !.pc = "acquire",
                                        !.c = instance, !.id = id, !.retries = retries])
    /\ UNCHANGED <<frontend, others, scan, started, settingsFile, clients, instance, current_ip, cache>>

ThumbnailRequest(t, id, retries) ==
    /\ Idle(t)
    /\ IF instance = NoClient
       THEN SetTask(t, [IdleTask EXCEPT !.op = "thumbnail", !.pc = "done",
                                        !.res = "not_configured"])
       ELSE IF Cache_get(id) # Nothing
       THEN SetTask(t, [IdleTask EXCEPT !.op = "thumbnail", !.pc = "done",
                                        !.c = instance, !.id = id, !.retries = retries,
                                        !.data = Cache_get(id), !.res = "bytes"])
       ELSE SetTask(t, [IdleTask EXCEPT !.op = "thumbnail", !.pc = "acquire",
                                        !.c = instance, !.id = id, !.retries = retries])
    /\ UNCHANGED <<frontend, others, scan, started, settingsFile, clients, instance, current_ip, cache>>

\* task t has the lock and waits no longer
Leave(waiting, t) == SelectSeq(waiting, LAMBDA u : u # t)

\* with self._lock finds the lock held: the thread blocks in acquire()
ThumbnailBlock(t) ==
    LET r == tasks[t] IN
    /\ r.op = "thumbnail" /\ r.pc = "acquire"
    /\ clients[r.c].lock # 0
    /\ clients' = [clients EXCEPT ![r.c].waiting = Append(@, t)]
    /\ SetTask(t, [r EXCEPT !.pc = "blocked"])
    /\ UNCHANGED <<frontend, others, scan, started, settingsFile, instance, current_ip, cache>>

\* with self._lock: _fetch_thumbnail_from_tv up to its first device call
ThumbnailAcquire(t) ==
    LET r == tasks[t]
        cl == clients[r.c]
    IN
    /\ r.op = "thumbnail" /\ r.pc \in {"acquire", "blocked"}
    /\ cl.lock = 0
    /\ IF cl.ver = Nothing
       THEN /\ clients' = [clients EXCEPT ![r.c] =
                               [SendVersionQuery(cl) EXCEPT !.lock = t,
                                                            !.waiting = Leave(@, t)]]
            /\ SetTask(t, [r EXCEPT !.pc = "vq", !.fetches = r.fetches + 1])
       ELSE /\ clients' = [clients EXCEPT ![r.c] =
                               [GetTv(cl) EXCEPT !.lock = t, !.shape = ShapeFor(cl.ver),
                                                 !.waiting = Leave(@, t)]]
            /\ SetTask(t, [r EXCEPT !.pc = "req", !.fetches = r.fetches + 1,
                                    !.parsed = cl.ver, !.shape = ShapeFor(cl.ver)])
    /\ UNCHANGED <<frontend, others, scan, started, settingsFile, instance, current_ip, cache>>

\* get_api_version() answered inside _is_new_api
ThumbnailVersionOk(t) ==
    LET r == tasks[t]
        v == DeviceVersion(clients[r.c].ip)
    IN
    /\ r.op = "thumbnail" /\ r.pc = "vq"
    /\ clients' = [clients EXCEPT ![r.c].ver = v, ![r.c].shape = ShapeFor(v)]
    /\ SetTask(t, [r EXCEPT !.pc = "req", !.parsed = v, !.shape = ShapeFor(v)])
    /\ UNCHANGED <<frontend, others, scan, started, settingsFile, instance, current_ip, cache>>

\* get_api_version() raised inside _is_new_api: logged, new API assumed
ThumbnailVersionRaise(t) ==
    LET r == tasks[t] IN
    /\ r.op = "thumbnail" /\ r.pc = "vq"
    /\ clients' = [clients EXCEPT ![r.c].shape = ShapeFor(Nothing)]
    /\ SetTask(t, [r EXCEPT !.pc = "req", !.parsed = Nothing, !.shape = ShapeFor(Nothing)])
    /\ UNCHANGED <<frontend, others, scan, started, settingsFile, instance, current_ip, cache>>

Unlock(cls, c) == [cls EXCEPT ![c].lock = 0]

MoreAttempts_OneTooMany(r) == r.attempt + 1 < r.retries + 2

\* for attempt in range(retries + 1): is there a next value
MoreAttempts(r) == r.attempt + 1 < r.retries + 1

\* the loop body is over: next attempt, or the code after the loop
NextAttempt(r) ==
    IF MoreAttempts(r)
    THEN [r EXCEPT !.pc = "acquire", !.attempt = r.attempt + 1]
    ELSE [r EXCEPT !.pc = "finish"]

\* the thumbnail call returned bytes: break
ThumbnailReplyData(t) ==
    LET r == tasks[t] IN
    /\ r.op = "thumbnail" /\ r.pc = "req"
    /\ clients' = Unlock(clients, r.c)
    /\ SetTask(t, [r EXCEPT !.pc = "finish", !.data = Bytes(clients[r.c].ip, r.id)])
    /\ UNCHANGED <<frontend, others, scan, started, settingsFile, instance, current_ip, cache>>

\* the thumbnail call returned nothing: the loop goes on without an error
ThumbnailReplyEmpty(t) ==
    LET r == tasks[t] IN
    /\ r.op = "thumbnail" /\ r.pc = "req"
    /\ clients' = Unlock(clients, r.c)
    /\ SetTask(t, NextAttempt(r))
    /\ UNCHANGED <<frontend, others, scan, started, settingsFile, instance, current_ip, cache>>

\* the thumbnail call raised: last_error is kept, a retry sleeps first
ThumbnailReplyRaise(t) ==
    LET r == tasks[t] IN
    /\ r.op = "thumbnail" /\ r.pc = "req"
    /\ clients' = Unlock(clients, r.c)
    /\ IF r.attempt < r.retries
       THEN SetTask(t, [r EXCEPT !.pc = "sleep", !.err = TRUE])
       ELSE SetTask(t, NextAttempt([r EXCEPT !.err = TRUE]))
    /\ UNCHANGED <<frontend, others, scan, started, settingsFile, instance, current_ip, cache>>

\* time.sleep(0.5) is over: self._tv = None, next attempt
ThumbnailAfterSleep(t) ==
    LET r == tasks[t] IN
    /\ r.op = "thumbnail" /\ r.pc = "sleep"
    /\ clients' = [clients EXCEPT ![r.c] = DropTv(clients[r.c])]
    /\ SetTask(t, NextAttempt(r))
    /\ UNCHANGED <<frontend, others, scan, started, settingsFile, instance, current_ip, cache>>

ThumbnailFinish_NoWriteThrough(t) ==
    LET r == tasks[t] IN
    /\ r.op = "thumbnail" /\ r.pc = "finish"
    /\ IF r.data # Nothing
       THEN SetTask(t, [r EXCEPT !.pc = "done", !.res = "bytes"])
       ELSE SetTask(t, [r EXCEPT !.pc = "done",
                                 !.res = IF r.err THEN "raise" ELSE "null"])
    /\ UNCHANGED <<frontend, others, scan, started, settingsFile, clients, instance, current_ip, cache>>

ThumbnailFinish_ErrorFirst(t) ==
    LET r == tasks[t] IN
    /\ r.op = "thumbnail" /\ r.pc = "finish"
    /\ IF r.err
       THEN /\ UNCHANGED cache
            /\ SetTask(t, [r EXCEPT !.pc = "done", !.res = "raise"])
       ELSE IF r.data # Nothing
       THEN /\ cache' = Cache_set(r.id, r.data)
            /\ SetTask(t, [r EXCEPT !.pc = "done", !.res = "bytes"])
       ELSE /\ UNCHANGED cache
            /\ SetTask(t, [r EXCEPT !.pc = "done", !.res = "null"])
    /\ UNCHANGED <<frontend, others, scan, started, settingsFile, clients, instance, current_ip>>

\* after the loop: write through and return, or raise last_error, or None
ThumbnailFinish(t) ==
    LET r == tasks[t] IN
    /\ r.op = "thumbnail" /\ r.pc = "finish"
    /\ IF r.data # Nothing
       THEN /\ cache' = Cache_set(r.id, r.data)
            /\ SetTask(t, [r EXCEPT !.pc = "done", !.res = "bytes"])
       ELSE /\ UNCHANGED cache
            /\ SetTask(t, [r EXCEPT !.pc = "done",
                                    !.res = IF r.err THEN "raise" ELSE "null"])
    /\ UNCHANGED <<frontend, others, scan, started, settingsFile, clients, instance, current_ip>>

Next ==
    \/ Startup
    \/ \E t \in Tasks :
        \/ GetStatusRequest(t)
        \/ StatusSupportedOk(t)
        \/ StatusVersionOk(t)
        \/ StatusRaise(t)
        \/ \E request \in Selections : SetTvSettingsRequest(t, request)
        \/ SetTvSettingsProbe(t)
        \/ SetTvSettingsFinish(t)
        \/ \E op \in {"select", "delete"}, id \in ContentIds : CallRequest(t, op, id)
        \/ \E op \in {"list", "upload", "upload_display"} : CallRequest(t, op, None)
        \/ \E answer \in ContentIds \cup {None} : CallOk(t, answer)
        \/ SelectAfterUploadOk(t)
        \/ CallRaise(t)
        \/ \E id \in ContentIds, retries \in 0..MaxRetries : ThumbnailRequest(t, id, retries)
        \/ ThumbnailBlock(t)
        \/ ThumbnailAcquire(t)
        \/ ThumbnailVersionOk(t)
        \/ ThumbnailVersionRaise(t)
        \/ ThumbnailReplyData(t)
        \/ ThumbnailReplyEmpty(t)
        \/ ThumbnailReplyRaise(t)
        \/ ThumbnailAfterSleep(t)
        \/ ThumbnailFinish(t)

Spec == Init /\ [][Next]_vars

\* ---- the files on disk over a long run: tv_settings.json and the thumbnail
\* cache outlive requests and process restarts
PersistInit ==
    /\ scan = IdleScan
    /\ modal = IdleModal
    /\ met = IdleMet
    /\ list = IdleList
    /\ batch = IdleBatch
    /\ drag = IdleDrag
    /\ started = FALSE
    /\ settingsFile = <<>>
    /\ clients = <<>>
    /\ instance = NoClient
    /\ current_ip = None
    /\ cache = EmptyCache
    /\ tasks = [t \in Tasks |-> IdleTask]

\* the response of task t has been sent; its slot takes the next request
Recycle(t) ==
    /\ tasks[t].pc = "done"
    /\ SetTask(t, IdleTask)
    /\ UNCHANGED <<frontend, others, scan, started, settingsFile, clients, instance, current_ip, cache>>

\* the process is stopped and started again: memory is lost, files stay
Restart ==
    /\ started
    /\ started' = FALSE
    /\ clients' = <<>>
    /\ instance' = NoClient
    /\ current_ip' = None
    /\ tasks' = [t \in Tasks |-> IdleTask]
    /\ UNCHANGED <<frontend, others, scan, settingsFile, cache>>

\* POST /settings over restarts: what tv_settings.json holds
SettingsNext ==
    \/ Startup
    \/ Restart
    \/ \E t \in Tasks :
        \/ Recycle(t)
        \/ (Len(clients) < MaxClients
             /\ \E request \in Selections : SetTvSettingsRequest(t, request))
        \/ SetTvSettingsProbe(t)
        \/ StatusSupportedOk(t)
        \/ StatusVersionOk(t)
        \/ StatusRaise(t)
        \/ SetTvSettingsFinish(t)

SettingsSpec == PersistInit /\ [][SettingsNext]_vars

\* Thumbnails fetched while the operator switches TVs, every device call
\* succeeding: what the thumbnail cache holds
SwitchNext ==
    \/ Startup
    \/ \E t \in Tasks :
        \/ Recycle(t)
        \/ (Len(clients) < MaxClients
             /\ \E request \in Selections : SetTvSettingsRequest(t, request))
        \/ SetTvSettingsProbe(t)
        \/ StatusSupportedOk(t)
        \/ StatusVersionOk(t)
        \/ SetTvSettingsFinish(t)
        \/ \E id \in ContentIds : ThumbnailRequest(t, id, 0)
        \/ ThumbnailBlock(t)
        \/ ThumbnailAcquire(t)
        \/ ThumbnailVersionOk(t)
        \/ ThumbnailReplyData(t)
        \/ ThumbnailFinish(t)

SwitchSpec == PersistInit /\ [][SwitchNext]_vars

\* ---- GET /discover: discover_tvs() on a worker thread
DiscoverInit ==
    /\ scan = IdleScan
    /\ modal = IdleModal
    /\ met = IdleMet
    /\ list = IdleList
    /\ batch = IdleBatch
    /\ drag = IdleDrag
    /\ started = TRUE
    /\ settingsFile = <<>>
    /\ clients = <<>>
    /\ instance = NoClient
    /\ current_ip = None
    /\ cache = EmptyCache
    /\ tasks = [t \in Tasks |-> IdleTask]

DiscoverRequest ==
    /\ scan.pc \in {"idle", "done"}
    /\ scan' = [IdleScan EXCEPT !.pc = "setup"]
    /\ UNCHANGED <<gateway, frontend, others>>

\* socket.socket() raised: the except logs it, then sock.close() in the
\* finally names a variable that was never bound and raises out of
\* discover_tvs; the endpoint has no handler
SocketRaise ==
    /\ scan.pc = "setup"
    /\ scan' = [scan EXCEPT !.pc = "done", !.ended = "socket_error", !.res = "raise"]
    /\ UNCHANGED <<gateway, frontend, others>>

\* socket(), setsockopt, settimeout and sendto all went through
SetupOk ==
    /\ scan.pc = "setup"
    /\ scan' = [scan EXCEPT !.pc = "recv", !.sock = "open"]
    /\ UNCHANGED <<gateway, frontend, others>>

\* the except/finally around the whole scan, then the return statement
ScanReturn(sc, ended) ==
    [sc EXCEPT !.pc = "done", !.sock = "closed", !.ended = ended, !.res = "list",
               !.tvs = sc.discovered]

\* the socket exists but setsockopt, settimeout or sendto raised: logged,
\* socket closed, the empty dict returned
SetupRaise ==
    /\ scan.pc = "setup"
    /\ scan' = ScanReturn(scan, "setup_error")
    /\ UNCHANGED <<gateway, frontend, others>>

\* a second goes by inside recvfrom
Tick ==
    /\ scan.pc = "recv"
    /\ scan.waited < SSDP_TIMEOUT
    /\ scan' = [scan EXCEPT !.waited = scan.waited + 1]
    /\ UNCHANGED <<gateway, frontend, others>>

Recv_NoDedup(response) ==
    LET location == parse_ssdp_response(response)
        ip == IF location = None THEN None ELSE extract_ip_from_url(location)
    IN
    /\ scan.pc = "recv"
    /\ scan.waited < SSDP_TIMEOUT
    /\ Len(scan.seen) < MaxResponses
    /\ IF ip # None
       THEN scan' = [scan EXCEPT !.pc = "fetch", !.url = location, !.waited = 0,
                                 !.seen = Append(scan.seen, location)]
       ELSE scan' = [scan EXCEPT !.waited = 0, !.seen = Append(scan.seen, location)]
    /\ UNCHANGED <<gateway, frontend, others>>

\* recvfrom returned a datagram before the timeout
Recv(response) ==
    LET location == parse_ssdp_response(response)
        ip == IF location = None THEN None ELSE extract_ip_from_url(location)
    IN
    /\ scan.pc = "recv"
    /\ scan.waited < SSDP_TIMEOUT
    /\ Len(scan.seen) < MaxResponses
    /\ IF ip # None /\ ~InDiscovered(scan.discovered, ip)
       THEN scan' = [scan EXCEPT !.pc = "fetch", !.url = location, !.waited = 0,
                                 !.seen = Append(scan.seen, location)]
       ELSE scan' = [scan EXCEPT !.waited = 0, !.seen = Append(scan.seen, location)]
    /\ UNCHANGED <<gateway, frontend, others>>

\* urlopen read the descriptor: _fetch_device_info parses it and the loop
\* body stores the device when it got a dict
FetchDeviceInfoOk ==
    LET doc == Descriptor(scan.url)
        info == device_info(doc)
        ip == extract_ip_from_url(scan.url)
    IN
    /\ scan.pc = "fetch"
    /\ IF info # <<>>
       THEN scan' = [scan EXCEPT !.pc = "recv", !.url = None,
                        !.discovered = Append(scan.discovered,
                            DiscoveredTV(ip, info[1].name, info[1].model))]
       ELSE scan' = [scan EXCEPT !.pc = "recv", !.url = None,
                        !.failed = IF doc.xml # "ok" THEN TRUE ELSE scan.failed]
    /\ UNCHANGED <<gateway, frontend, others>>

FetchDeviceInfoRaise_Aborts ==
    /\ scan.pc = "fetch"
    /\ scan' = [scan EXCEPT !.pc = "done", !.sock = "closed", !.res = "raise",
                             !.ended = "fetch_error", !.url = None, !.failed = TRUE]
    /\ UNCHANGED <<gateway, frontend, others>>

\* urlopen raised (refused, timed out): caught inside _fetch_device_info
FetchDeviceInfoRaise ==
    /\ scan.pc = "fetch"
    /\ scan' = [scan EXCEPT !.pc = "recv", !.url = None, !.failed = TRUE]
    /\ UNCHANGED <<gateway, frontend, others>>

RecvTimeout_IsError ==
    /\ scan.pc = "recv"
    /\ scan.waited = SSDP_TIMEOUT
    /\ scan' = [scan EXCEPT !.pc = "done", !.sock = "closed", !.ended = "timeout",
                             !.res = "raise"]
    /\ UNCHANGED <<gateway, frontend, others>>

\* socket.timeout after SSDP_TIMEOUT seconds without a datagram: break
RecvTimeout ==
    /\ scan.pc = "recv"
    /\ scan.waited = SSDP_TIMEOUT
    /\ scan' = ScanReturn(scan, "timeout")
    /\ UNCHANGED <<gateway, frontend, others>>

\* recvfrom raised something other than socket.timeout: the outer except
RecvRaise ==
    /\ scan.pc = "recv"
    /\ scan' = ScanReturn(scan, "recv_error")
    /\ UNCHANGED <<gateway, frontend, others>>

DiscoverNext ==
    \/ DiscoverRequest
    \/ SocketRaise
    \/ SetupOk
    \/ SetupRaise
    \/ Tick
    \/ \E response \in Responses : Recv(response)
    \/ FetchDeviceInfoOk
    \/ FetchDeviceInfoRaise
    \/ RecvTimeout
    \/ RecvRaise

DiscoverSpec == DiscoverInit /\ [][DiscoverNext]_vars

\* Time passes inside recvfrom and its timeout fires.
FairDiscoverSpec == DiscoverSpec /\ WF_vars(Tick) /\ WF_vars(RecvTimeout)

\* ======================================================== properties

ClientIds == 1..Len(clients)

\* a device call of task t is in progress on the transport
InCall(t) == tasks[t].pc \in {"sup", "vq", "req", "call", "call2"}

OnlyRequest(t) == \A u \in Tasks : u # t => tasks[u].pc = "idle"

C2_RejectedConfigureMutatesNothing ==
    \A t \in Tasks :
        (tasks[t].op = "settings" /\ tasks[t].res = "rejected" /\ OnlyRequest(t))
        => /\ settingsFile = tasks[t].pre[1].settingsFile
           /\ instance = tasks[t].pre[1].instance
           /\ cache = tasks[t].pre[1].cache

\* C3: no two device calls are in progress on one connection at a time.
C3_CallsNeverOverlap ==
    \A t, u \in Tasks :
        (t # u /\ InCall(t) /\ InCall(u)) => tasks[t].c # tasks[u].c

\* C4: one get_thumbnail call makes at most retries + 1 fetch attempts.
C4_AtMostRetriesPlusOneFetches ==
    \A t \in Tasks :
        tasks[t].op = "thumbnail" => tasks[t].fetches <= tasks[t].retries + 1

C4_Witness ==
    \E t \in Tasks :
        /\ tasks[t].op = "thumbnail" /\ tasks[t].res = "raise"
        /\ tasks[t].retries >= 1
        /\ tasks[t].fetches = tasks[t].retries + 1

\* C5: on one connection the version query goes out at most once between
\* two discards of the handle.
C5_VersionQueriedOnce == \A c \in ClientIds : clients[c].vq <= 1

\* C6: a failed device call leaves the connection without a handle.
FailedCall(t) == CallRaise(t) \/ StatusRaise(t) \/ ThumbnailReplyRaise(t)

C6_FailureDiscardsHandle ==
    [][\A t \in Tasks : FailedCall(t) => ~clients'[tasks[t].c].tv]_vars

\* C7: GET /status always answers with a status, never with an error: a
\* failed probe drops the handle and the version and answers disconnected
\* with the error text; without a TV it answers disconnected as well.
C7_StatusNeverRaises ==
    /\ [](\A t \in Tasks :
            (tasks[t].op = "status" /\ tasks[t].pc = "done")
            => tasks[t].res \in {"connected", "disconnected_error", "not_configured"})
    /\ [][\A t \in Tasks :
            (tasks[t].op \in StatusOps /\ tasks[t].pc \in {"sup", "vq"}
             /\ tasks'[t].pc \notin {"sup", "vq"} /\ tasks'[t].res # "connected")
            => /\ tasks'[t].res = "disconnected_error"
               /\ ~clients'[tasks[t].c].tv
               /\ clients'[tasks[t].c].ver = Nothing]_vars

C7_Witness ==
    \E t \in Tasks :
        /\ tasks[t].op = "status" /\ tasks[t].pc = "done"
        /\ tasks[t].res = "disconnected_error"
        /\ ~clients[tasks[t].c].tv

\* C8: get_thumbnail returns the bytes whenever an attempt produced them,
\* whatever failed before, and raises only after retries + 1 attempts none of
\* which produced bytes.
C8_TransientFailureInvisible ==
    \A t \in Tasks :
        (tasks[t].op = "thumbnail" /\ tasks[t].pc = "done"
         /\ tasks[t].res # "not_configured")
        => /\ tasks[t].data # Nothing <=> tasks[t].res = "bytes"
           /\ tasks[t].res = "raise"
              => (tasks[t].err /\ tasks[t].fetches = tasks[t].retries + 1)

C8_Witness ==
    \E t \in Tasks :
        /\ tasks[t].op = "thumbnail" /\ tasks[t].pc = "done"
        /\ tasks[t].err /\ tasks[t].res = "bytes" /\ tasks[t].fetches >= 2

\* C9: the request of a fetch has the shape its parsed major version gives:
\* batch from 4 on, single-item below; "2.03" is 2 and "4.3.4.0" is 4.
ExpectedMajor(version) == IF version = V_2_03 THEN 2 ELSE 4

C9_ShapeFollowsMajorVersion ==
    \A t \in Tasks :
        (tasks[t].op = "thumbnail" /\ tasks[t].pc = "req")
        => /\ tasks[t].shape \in {"get_thumbnail_list", "get_thumbnail"}
           /\ tasks[t].parsed \in {V_2_03, V_4_3_4_0}
              => (tasks[t].shape = "get_thumbnail_list"
                  <=> ExpectedMajor(tasks[t].parsed) >= 4)

C9_Witness ==
    \E t \in Tasks :
        /\ tasks[t].op = "thumbnail" /\ tasks[t].pc = "req"
        /\ tasks[t].parsed = V_2_03 /\ tasks[t].shape = "get_thumbnail"

C11_CacheHitIsIdempotent ==
    [][\A t \in Tasks :
          (/\ tasks[t].pc = "idle" /\ tasks'[t].op = "thumbnail"
           /\ instance # NoClient /\ cache[tasks'[t].id] # Nothing)
          => /\ tasks'[t].pc = "done" /\ tasks'[t].res = "bytes"
             /\ tasks'[t].fetches = 0
             /\ clients' = clients /\ cache' = cache
             /\ tasks'[t].data = cache[tasks'[t].id]
             /\ \A u \in Tasks :
                    (/\ u # t /\ tasks[u].op = "thumbnail" /\ tasks[u].pc = "done"
                     /\ tasks[u].res = "bytes" /\ tasks[u].id = tasks'[t].id
                     /\ \A w \in Tasks \ {t, u} : tasks[w].pc = "idle")
                    => tasks'[t].data = tasks[u].data]_vars

C11_Witness ==
    \E t, u \in Tasks :
        /\ tasks[u].op = "thumbnail" /\ tasks[u].res = "bytes" /\ tasks[u].fetches >= 1
        /\ tasks[t].op = "thumbnail" /\ tasks[t].res = "bytes" /\ tasks[t].fetches = 0
        /\ tasks[t].id = tasks[u].id /\ tasks[t].data = tasks[u].data

\* C12: a scan holds at most one device per address, and a device once
\* stored is never replaced: a later response from the same address, under
\* whatever name, changes nothing, so the first stored name is returned.
NoTwoDevicesAt(devices) ==
    \A i, j \in 1..Len(devices) : devices[i].ip = devices[j].ip => i = j

C12_FirstSeenWins ==
    /\ [](NoTwoDevicesAt(scan.discovered) /\ NoTwoDevicesAt(scan.tvs))
    /\ [][scan'.pc # "setup"
          => /\ \A i \in 1..Len(scan.discovered) :
                    /\ i <= Len(scan'.discovered)
                    /\ scan'.discovered[i] = scan.discovered[i]
             /\ scan'.pc = "done" => scan'.tvs = scan.discovered]_vars

C12_Witness ==
    /\ scan.pc = "done" /\ scan.res = "list"
    /\ scan.seen = <<"http://10.0.0.5:9197/dmr", "http://10.0.0.5:7676/rcr">>
    /\ scan.tvs = <<DiscoveredTV("10.0.0.5", "Living Room", "QE55LS03")>>

\* C13: a descriptor that cannot be fetched or parsed is skipped: the scan
\* goes back to receiving with every stored device kept, and a scan that
\* met such a descriptor still answers with the devices it stored.
C13_BadDescriptorIsSkipped ==
    /\ []((scan.pc = "done" /\ scan.failed)
           => (scan.res = "list" /\ scan.tvs = scan.discovered))
    /\ [][scan.pc = "fetch"
          => /\ scan'.pc = "recv"
             /\ \A i \in 1..Len(scan.discovered) :
                    scan'.discovered[i] = scan.discovered[i]
             /\ device_info(Descriptor(scan.url)) # <<>>
                => \/ scan'.failed
                   \/ InDiscovered(scan'.discovered, extract_ip_from_url(scan.url))]_vars

C13_Witness ==
    /\ scan.pc = "done" /\ scan.res = "list" /\ scan.failed
    /\ scan.seen[1] = "http://10.0.0.8:9197/dmr"
    /\ Len(scan.seen) = 3
    /\ Len(scan.tvs) = 2

\* C14: a scan whose socket could not be set up answers with an error, not
\* with a device list.
C14_SetupFailureIsSurfaced ==
    (scan.pc = "done" /\ scan.ended \in {"socket_error", "setup_error"})
    => scan.res = "raise"

\* C15: a scan nobody answers ends when recvfrom has blocked SSDP_TIMEOUT
\* seconds, and answers with the empty list, not with an error.
C15_SilentScanReturnsEmpty ==
    /\ []((scan.pc = "done" /\ scan.ended = "timeout")
           => /\ scan.res = "list"
              /\ scan.waited = SSDP_TIMEOUT
              /\ scan.seen = <<>> => scan.tvs = <<>>)
    /\ ((scan.pc = "recv" /\ scan.seen = <<>>)
          ~> (scan.pc = "done" \/ scan.seen # <<>>))

C15_Witness ==
    /\ scan.pc = "done" /\ scan.ended = "timeout" /\ scan.seen = <<>>
    /\ scan.res = "list" /\ scan.tvs = <<>> /\ scan.waited = SSDP_TIMEOUT

\* C16: once two POST /settings have both succeeded, however they
\* interleaved, the current connection, the recorded current address and
\* the saved selection all name the same TV.
C16_ConcurrentConfigureLastWriteWins ==
    (\A t \in Tasks : tasks[t].op = "settings" /\ tasks[t].res = "saved")
    => /\ instance # NoClient
       /\ clients[instance].ip = current_ip
       /\ settingsFile # <<>>
       /\ settingsFile[1].selected_tv_ip = current_ip

\* C17: while the probe of a POST /settings is running, the current
\* connection is still the one that was current before the request.
ProbeRunning(t) ==
    tasks[t].op = "settings" /\ tasks[t].pc \in {"probe", "sup", "vq", "verify"}

C17_CurrentUnchangedDuringProbe ==
    \A t \in Tasks :
        (ProbeRunning(t) /\ OnlyRequest(t)) => instance = tasks[t].pre[1].instance

\* C18: no thumbnail request goes out on a connection whose version query
\* failed: the call ends as unreachable instead.
C18_NoRequestAfterFailedDetection ==
    \A t \in Tasks :
        (tasks[t].op = "thumbnail" /\ tasks[t].pc = "req") => tasks[t].parsed # Nothing

\* C19: a get_thumbnail the device answered with nothing (the content id is
\* unknown to it) hands that outcome to the caller after one fetch.
C19_NotFoundNeverRetried ==
    \A t \in Tasks :
        (tasks[t].op = "thumbnail" /\ tasks[t].pc = "done" /\ tasks[t].res = "null")
        => tasks[t].fetches = 1

\* C20: a version that was detected stays memoized on its connection,
\* whatever call fails afterwards.
C20_DetectedVersionKept ==
    [][\A c \in ClientIds :
          clients[c].ver # Nothing => clients'[c].ver = clients[c].ver]_vars

\* C21: between two teardowns of a connection's handle, every thumbnail
\* call on it goes out in the same request shape.
C21_OneShapePerHandle ==
    [][\A c \in ClientIds :
          (clients[c].shape # None /\ clients'[c].shape # None)
          => clients'[c].shape = clients[c].shape]_vars

\* C27: while tasks are blocked on the lock of a connection, the lock goes
\* to the one that has been blocked longest.
C27_LockServedInArrivalOrder ==
    [][\A c \in ClientIds : \A t \in Tasks :
          (clients[c].lock # t /\ clients'[c].lock = t /\ clients[c].waiting # <<>>)
          => Head(clients[c].waiting) = t]_vars

\* C23: a get_thumbnail that got bytes from the device has stored them under
\* its content id by the time it returns them.
C23_FetchedBytesWrittenThrough ==
    [][\A t \in Tasks :
          (/\ tasks[t].op = "thumbnail" /\ tasks[t].pc = "finish"
           /\ tasks[t].data # Nothing /\ tasks'[t].pc = "done")
          => /\ tasks'[t].res = "bytes"
             /\ tasks'[t].data = tasks[t].data
             /\ cache'[tasks[t].id] = tasks[t].data]_vars

C23_Witness ==
    \E t \in Tasks :
        /\ tasks[t].op = "thumbnail" /\ tasks[t].pc = "done" /\ tasks[t].res = "bytes"
        /\ tasks[t].fetches >= 1
        /\ cache[tasks[t].id] = tasks[t].data
        /\ tasks[t].data = Bytes(clients[tasks[t].c].ip, tasks[t].id)

C26_StartupWithoutSelection ==
    [][(~started /\ started')
       => IF settingsFile = <<>>
          THEN instance' = NoClient /\ current_ip' = None /\ clients' = clients
          ELSE /\ instance' # NoClient
               /\ clients'[instance'].ip = settingsFile[1].selected_tv_ip
               /\ current_ip' = settingsFile[1].selected_tv_ip]_vars

C26_Witness ==
    /\ started /\ settingsFile = <<>> /\ instance = NoClient
    /\ \E t \in Tasks : tasks[t].op = "status" /\ tasks[t].res = "not_configured"

\* C22: the bytes cached under a content id stay the same until the entry
\* is removed, and it is removed only by delete_artwork(id) invalidating it
\* or by configure clearing the cache on a switch to another TV.
Invalidates(id) ==
    \E t \in Tasks :
        /\ tasks[t].op = "delete" /\ tasks[t].id = id
        /\ tasks[t].pc = "call" /\ tasks'[t].res = "ok"

Clears == instance # NoClient /\ instance' # instance /\ current_ip' # current_ip

C22_CacheEntryImmutable ==
    [][\A id \in ContentIds :
          cache[id] # Nothing
          => \/ cache'[id] = cache[id]
             \/ cache'[id] = Nothing /\ (Invalidates(id) \/ Clears)]_vars

\* C24: a POST /settings that succeeds leaves exactly its selection in
\* tv_settings.json, whatever was there; loading the file gives it back, and
\* the next start configures the client for the address in the file.
C24_SavedSelectionIsLoaded ==
    /\ [][\A t \in Tasks :
             (/\ tasks[t].op = "settings" /\ tasks[t].pc = "verify"
              /\ tasks'[t].res = "saved")
             => /\ settingsFile' = <<TVSettings(clients[tasks[t].c].ip,
                                                 tasks[t].name, tasks[t].manual)>>
                /\ load_settings'.selected_tv_ip = clients[tasks[t].c].ip
                /\ configured(load_settings')]_vars
    /\ [][(~started /\ started' /\ configured(load_settings))
          => /\ current_ip' = load_settings.selected_tv_ip
             /\ instance' # NoClient
             /\ clients'[instance'].ip = load_settings.selected_tv_ip]_vars

C24_Witness ==
    /\ started /\ Len(clients) = 1 /\ instance = 1
    /\ \A t \in Tasks : tasks[t].pc = "idle"
    /\ settingsFile = <<TVSettings("10.0.0.6", "Samsung TV", TRUE)>>
    /\ current_ip = "10.0.0.6"

\* ================================================== TvConnectionModal.vue
\* One component instance. Closing unmounts it (v-if="showTvModal"), which
\* stops neither its timers nor its requests: their callbacks still run on
\* the instance's refs.

\* scan(), up to the await of fetch('/api/tv/discover')
ModalScan(m) ==
    [m EXCEPT !.scanning = TRUE, !.error = None, !.tvs = <<>>,
              !.discover = TRUE, !.scans = @ + 1]

\* App.vue shows the dialog; onMounted(() => scan())
OpenModal ==
    /\ ~modal.mounted
    /\ modal' = ModalScan([modal EXCEPT !.mounted = TRUE, !.open = TRUE])
    /\ UNCHANGED <<gateway, scan, met, others>>

\* the Rescan / Scan Again button
ScanAgain ==
    /\ modal.open /\ ~modal.scanning /\ modal.scans < MaxScans
    /\ modal' = ModalScan(modal)
    /\ UNCHANGED <<gateway, scan, met, others>>

\* scan() after the await: the answer arrived
DiscoverResponse(found) ==
    /\ modal.discover
    /\ modal' = [modal EXCEPT !.discover = FALSE, !.tvs = found,
                              !.timers = IF Len(found) = 1 THEN Append(@, 0) ELSE @,
                              !.scanning = FALSE]
    /\ UNCHANGED <<gateway, scan, met, others>>

\* scan() after the await: fetch or res.json() threw
DiscoverFailed ==
    /\ modal.discover
    /\ modal' = [modal EXCEPT !.discover = FALSE, !.error = "Failed to scan for TVs",
                              !.scanning = FALSE]
    /\ UNCHANGED <<gateway, scan, met, others>>

\* selectTV(tv) without its first line, up to the await of the POST
selectTV_Unguarded(m, tv, auto, after) ==
    [m EXCEPT !.selectedIp = <<tv.ip>>, !.connecting = TRUE, !.error = None,
              !.posts = Append(@, [ip |-> tv.ip, name |-> tv.name, manual_entry |-> FALSE,
                                   auto |-> auto, after |-> after, open |-> m.open,
                                   connected |-> m.connected])]

\* selectTV(tv), up to the await of the POST. auto and after record who called
\* it and how long after the scan; open and connected whether the dialog was
\* still shown and whether 'connected' had been emitted by then.
selectTV(m, tv, auto, after) ==
    IF m.connecting THEN m
    ELSE [m EXCEPT !.selectedIp = <<tv.ip>>, !.connecting = TRUE, !.error = None,
                   !.posts = Append(@, [ip |-> tv.ip, name |-> tv.name,
                                        manual_entry |-> FALSE, auto |-> auto,
                                        after |-> after, open |-> m.open,
                                        connected |-> m.connected])]

\* time passes while no timer is due
Elapse ==
    /\ modal.timers # <<>>
    /\ \A i \in 1..Len(modal.timers) : modal.timers[i] < AUTO_SELECT_DELAY
    /\ modal' = [modal EXCEPT !.timers =
                    [i \in 1..Len(modal.timers) |-> modal.timers[i] + AUTO_SELECT_DELAY]]
    /\ UNCHANGED <<gateway, scan, met, others>>

\* the timer callback: selectTV(tvs.value[0]), with tvs as it is by now;
\* on an emptied list tv.ip throws before anything is assigned
TimerFire ==
    /\ \E i \in 1..Len(modal.timers) :
        /\ modal.timers[i] >= AUTO_SELECT_DELAY
        /\ LET m == [modal EXCEPT !.timers =
                        SubSeq(@, 1, i - 1) \o SubSeq(@, i + 1, Len(@))]
           IN  modal' = IF m.tvs = <<>> THEN m
                        ELSE selectTV(m, m.tvs[1], TRUE, modal.timers[i])
    /\ UNCHANGED <<gateway, scan, met, others>>

\* a click on a TV card
ClickTv ==
    /\ modal.open /\ ~modal.scanning
    /\ \E i \in 1..Len(modal.tvs) : modal' = selectTV(modal, modal.tvs[i], FALSE, 0)
    /\ UNCHANGED <<gateway, scan, met, others>>

\* v-model="manualIp" on an input that is disabled while connecting
TypeManual(text) ==
    /\ modal.open /\ ~modal.connecting
    /\ modal' = [modal EXCEPT !.manualIp = text]
    /\ UNCHANGED <<gateway, scan, met, others>>

\* connectManual(), up to the await of the POST (Connect button or Enter)
connectManual(m) ==
    IF m.manualIp = <<>> \/ m.connecting THEN m
    ELSE IF ~ipRegexTest(m.manualIp)
    THEN [m EXCEPT !.error = "Please enter a valid IP address"]
    ELSE [m EXCEPT !.connecting = TRUE, !.selectedIp = <<m.manualIp>>, !.error = None,
                   !.posts = Append(@, [ip |-> m.manualIp, name |-> "Samsung TV",
                                        manual_entry |-> TRUE, auto |-> FALSE,
                                        after |-> 0, open |-> m.open,
                                        connected |-> m.connected])]

ConnectManual ==
    /\ modal.open
    /\ modal' = connectManual(modal)
    /\ UNCHANGED <<gateway, scan, met, others>>

\* POST /api/tv/settings answered ok: emit('connected'), App.vue hides the dialog
PostOk ==
    /\ \E i \in 1..Len(modal.posts) :
        modal' = [modal EXCEPT !.posts = SubSeq(@, 1, i - 1) \o SubSeq(@, i + 1, Len(@)),
                               !.connecting = FALSE, !.open = FALSE,
                               !.connected = TRUE]
    /\ UNCHANGED <<gateway, scan, met, others>>

\* the POST answered not ok, or threw
PostRejected ==
    /\ \E i \in 1..Len(modal.posts) :
        modal' = [modal EXCEPT !.posts = SubSeq(@, 1, i - 1) \o SubSeq(@, i + 1, Len(@)),
                               !.error = "Connection failed",
                               !.selectedIp = <<>>, !.connecting = FALSE]
    /\ UNCHANGED <<gateway, scan, met, others>>

\* the close button or a click on the overlay: emit('close')
CloseModal ==
    /\ modal.open
    /\ modal' = [modal EXCEPT !.open = FALSE]
    /\ UNCHANGED <<gateway, scan, met, others>>

ModalNext ==
    \/ OpenModal
    \/ ScanAgain
    \/ \E found \in FoundLists : DiscoverResponse(found)
    \/ DiscoverFailed
    \/ Elapse
    \/ TimerFire
    \/ ClickTv
    \/ \E text \in ManualInputs : TypeManual(text)
    \/ ConnectManual
    \/ PostOk
    \/ PostRejected
    \/ CloseModal

ModalSpec == DiscoverInit /\ [][ModalNext]_vars

\* The automatic connect requests in flight.
AutoPosts == {i \in 1..Len(modal.posts) : modal.posts[i].auto}

\* C28: after a scan that found exactly one TV the dialog connects to it by
\* itself two seconds later, and not at all once the user has called it off:
\* every automatic connect request was sent at least 2000 ms after the scan
\* answered and while the dialog was still shown.
C28_AutoConnectAfterTwoSecondsCancellable ==
    \A i \in AutoPosts : modal.posts[i].after >= 2000 /\ modal.posts[i].open

\* The manual connect requests in flight.
ManualPosts == {i \in 1..Len(modal.posts) : modal.posts[i].manual_entry}

\* C29: connectManual sends a connect request only for a valid IPv4 address:
\* every manual request in flight carries four dot-separated numbers of 0..255.
C29_OnlyValidIPv4Submitted ==
    \A i \in ManualPosts : ValidIPv4(modal.posts[i].ip)

\* ========================================================== the Met panel
\* an overlay (preview or resolution warning) covers the grid and the buttons
Overlaid == met.showResolutionWarning \/ met.showPreview

toggleSelection(id) ==
    /\ ~Overlaid
    /\ met' = [met EXCEPT !.selectedIds =
                  IF id \in @ THEN @ \ {id} ELSE @ \cup {id}]
    /\ UNCHANGED <<gateway, scan, modal, others>>

\* doUpload(display), up to the await of POST /api/met/upload; confirmed
\* records whether the call came from the warning's "Upload Anyway"
doUpload(m, display, confirmed) ==
    [m EXCEPT !.uploading = TRUE, !.sent = @ + 1,
              !.posts = Append(@, [object_ids |-> m.selectedIds, display |-> display,
                                   confirmed |-> confirmed])]

\* upload(display), up to the await of fetchMissingDimensions(), which has
\* already picked the images it will measure
UploadClick(display) ==
    /\ ~Overlaid /\ met.selectedIds # {} /\ ~met.uploading
    /\ met.measuring = <<>> /\ met.sent < MaxUploads
    /\ met' = [met EXCEPT !.measuring =
                  <<[display |-> display, ids |-> met.selectedIds]>>]
    /\ UNCHANGED <<gateway, scan, modal, others>>

\* upload(display) after the await: the sizes are in, then the low-resolution
\* check, then either the warning or doUpload
Measured(measured) ==
    /\ met.measuring # <<>>
    /\ LET call == met.measuring[1]
           m == [met EXCEPT !.measuring = <<>>,
                            !.size = [id \in ObjectIds |->
                                IF id \in call.ids /\ (@[id][1] = 0 \/ @[id][2] = 0)
                                THEN measured ELSE @[id]]]
       IN  met' = IF lowResImages(m) # {}
                  THEN [m EXCEPT !.pendingUpload = [display |-> call.display],
                                 !.showResolutionWarning = TRUE]
                  ELSE doUpload(m, call.display, FALSE)
    /\ UNCHANGED <<gateway, scan, modal, others>>

\* "Upload Anyway"
confirmUpload ==
    /\ met.showResolutionWarning /\ met.sent < MaxUploads
    /\ met' = doUpload([met EXCEPT !.showResolutionWarning = FALSE],
                       met.pendingUpload.display, TRUE)
    /\ UNCHANGED <<gateway, scan, modal, others>>

\* "Cancel" on the warning
CancelWarning ==
    /\ met.showResolutionWarning
    /\ met' = [met EXCEPT !.showResolutionWarning = FALSE]
    /\ UNCHANGED <<gateway, scan, modal, others>>

\* loadPreviews(), up to the await of POST /api/met/preview
loadPreviews ==
    /\ ~Overlaid /\ met.selectedIds # {}
    /\ met' = [met EXCEPT !.showPreview = TRUE, !.previewLoading = TRUE,
                          !.previews = 0]
    /\ UNCHANGED <<gateway, scan, modal, others>>

\* loadPreviews() after the await: n previews came back (none on failure)
PreviewResponse(n) ==
    /\ met.previewLoading
    /\ met' = [met EXCEPT !.previews = n, !.previewLoading = FALSE]
    /\ UNCHANGED <<gateway, scan, modal, others>>

\* the preview's close button, Cancel, or a click on its overlay
ClosePreview ==
    /\ met.showPreview
    /\ met' = [met EXCEPT !.showPreview = FALSE]
    /\ UNCHANGED <<gateway, scan, modal, others>>

\* the preview's Upload button, disabled while loading or without previews
uploadFromPreview ==
    /\ met.showPreview /\ ~met.previewLoading /\ met.previews > 0
    /\ met.sent < MaxUploads
    /\ met' = doUpload([met EXCEPT !.showPreview = FALSE], FALSE, FALSE)
    /\ UNCHANGED <<gateway, scan, modal, others>>

\* the statuses POST /api/met/upload answers with, each with a JSON body
UploadStatuses == {200, 500}

\* doUpload after the await: answered with a JSON body, whatever the status;
\* the selection is cleared and 'uploaded' is emitted
UploadResponse(status) ==
    /\ met.posts # <<>>
    /\ met' = [met EXCEPT !.posts = Tail(@), !.selectedIds = {}, !.uploading = FALSE,
                          !.answered = status, !.uploaded = @ + 1]
    /\ UNCHANGED <<gateway, scan, modal, others>>

\* doUpload after the await: fetch or res.json() threw
UploadFailed ==
    /\ met.posts # <<>>
    /\ met' = [met EXCEPT !.posts = Tail(@), !.uploading = FALSE, !.answered = 0]
    /\ UNCHANGED <<gateway, scan, modal, others>>

MetNext ==
    \/ \E id \in ObjectIds : toggleSelection(id)
    \/ \E display \in BOOLEAN : UploadClick(display)
    \/ \E measured \in MeasuredSizes : Measured(measured)
    \/ confirmUpload
    \/ CancelWarning
    \/ loadPreviews
    \/ \E n \in {0, Cardinality(met.selectedIds)} : PreviewResponse(n)
    \/ ClosePreview
    \/ uploadFromPreview
    \/ \E status \in UploadStatuses : UploadResponse(status)
    \/ UploadFailed

MetSpec == DiscoverInit /\ [][MetNext]_vars

\* The image is known to be narrower or lower than the TV.
KnownLowRes(id) ==
    /\ met.size[id][1] # 0 /\ met.size[id][2] # 0
    /\ IsLowRes(met.size[id])

\* C30: a selection holding an image smaller than 3840x2160 in either
\* dimension is uploaded only after "Upload Anyway": every upload request in
\* flight that carries such an image was sent by the warning's confirmation.
C30_LowResUploadOnlyAfterConfirmation ==
    \A i \in 1..Len(met.posts) :
        (\E id \in met.posts[i].object_ids : KnownLowRes(id))
            => met.posts[i].confirmed

\* C31: a thumbnail fetched before the cache was cleared for a device switch
\* is not written into the cache afterwards: whatever the cache holds was
\* fetched from the device the gateway is configured for now.
C31_NoFetchOutlivesClear ==
    \A id \in ContentIds :
        cache[id] # Nothing
        => instance # NoClient /\ cache[id] = Bytes(current_ip, id)

\* ================================================= the Met panel: its list
\* clearTimeout(id): the timer, if still pending, is dropped
clearTimeout(timers, id) == SelectSeq(timers, LAMBDA tm : tm.id # id)

\* loadArtwork(append), up to the await of fetch(endpoint): the endpoint is
\* built from the query and the page as they are now; by names the caller
loadArtwork(l, append, by) ==
    LET l1 == IF append THEN [l EXCEPT !.loadingMore = TRUE]
              ELSE [l EXCEPT !.currentPage = 1, !.artwork = <<>>, !.loading = TRUE]
    IN  [l1 EXCEPT !.issued = @ + 1,
                   !.fetches = Append(@, [q |-> l1.activeSearch,
                                          medium |-> l1.selectedMedium,
                                          page |-> l1.currentPage,
                                          append |-> append, by |-> by])]

\* onMounted: loadArtwork()
MountPanel ==
    /\ ~list.mounted
    /\ list' = loadArtwork([list EXCEPT !.mounted = TRUE], FALSE, "mount")
    /\ UNCHANGED <<gateway, scan, frontend, batch, drag>>

\* a keystroke in the search box: v-model, then onSearchInput without the
\* clearTimeout of the timer set before
onSearchInput_KeepsTimer(text) ==
    /\ list.mounted /\ list.keys < MaxKeys /\ text # list.searchQuery
    /\ list' = [list EXCEPT !.searchQuery = text, !.keys = @ + 1,
                            !.timers = Append(@, [id |-> list.nextId, elapsed |-> 0]),
                            !.handle = list.nextId, !.nextId = @ + 1]
    /\ UNCHANGED <<gateway, scan, frontend, batch, drag>>

\* a keystroke in the search box: v-model, then onSearchInput
onSearchInput(text) ==
    /\ list.mounted /\ list.keys < MaxKeys /\ text # list.searchQuery
    /\ list' = [list EXCEPT !.searchQuery = text, !.keys = @ + 1,
                            !.timers = Append(IF list.handle # 0
                                              THEN clearTimeout(@, list.handle)
                                              ELSE @,
                                              [id |-> list.nextId, elapsed |-> 0]),
                            !.handle = list.nextId, !.nextId = @ + 1]
    /\ UNCHANGED <<gateway, scan, frontend, batch, drag>>

\* time passes while no debounce timer is due
ListElapse ==
    /\ list.timers # <<>>
    /\ \A i \in 1..Len(list.timers) : list.timers[i].elapsed < DEBOUNCE_MS
    /\ list' = [list EXCEPT !.timers =
                   [i \in 1..Len(list.timers) |->
                       [list.timers[i] EXCEPT !.elapsed = @ + DEBOUNCE_MS \div 2]]]
    /\ UNCHANGED <<gateway, scan, frontend, batch, drag>>

doSearch(l, by) ==
    loadArtwork([l EXCEPT !.timers = IF l.handle # 0 THEN clearTimeout(@, l.handle) ELSE @,
                          !.handle = 0,
                          !.activeSearch = Trim(l.searchQuery)],
                FALSE, by)

\* the debounce timer's callback
DebounceFire ==
    /\ \E i \in 1..Len(list.timers) :
        /\ list.timers[i].elapsed >= DEBOUNCE_MS
        /\ list' = doSearch([list EXCEPT !.timers =
                                SubSeq(@, 1, i - 1) \o SubSeq(@, i + 1, Len(@))],
                            "timer")
    /\ UNCHANGED <<gateway, scan, frontend, batch, drag>>

\* Enter in the search box
SubmitSearch ==
    /\ list.mounted /\ list.issued < MaxLoads
    /\ list' = doSearch(list, "enter")
    /\ UNCHANGED <<gateway, scan, frontend, batch, drag>>

\* the clear button, shown while the box holds text
clearSearch ==
    /\ list.mounted /\ list.issued < MaxLoads /\ list.searchQuery # <<>>
    /\ list' = loadArtwork([list EXCEPT !.searchQuery = <<>>, !.activeSearch = <<>>,
                                        !.timers = IF list.handle # 0
                                                   THEN clearTimeout(@, list.handle)
                                                   ELSE @,
                                        !.handle = 0],
                           FALSE, "clear")
    /\ UNCHANGED <<gateway, scan, frontend, batch, drag>>

\* the medium select changed
onFilterChange(medium) ==
    /\ list.mounted /\ list.issued < MaxLoads /\ medium # list.selectedMedium
    /\ list' = loadArtwork([list EXCEPT !.selectedMedium = medium], FALSE, "filter")
    /\ UNCHANGED <<gateway, scan, frontend, batch, drag>>

\* the grid asks for more
loadMore ==
    /\ list.mounted /\ list.issued < MaxLoads
    /\ list.hasMore /\ ~list.loading /\ ~list.loadingMore
    /\ list' = loadArtwork([list EXCEPT !.currentPage = @ + 1], TRUE, "more")
    /\ UNCHANGED <<gateway, scan, frontend, batch, drag>>

\* the objects of one page of one query, as one grid entry
PageOf(f) == IF f.page <= MaxPages THEN <<[q |-> f.q, medium |-> f.medium, page |-> f.page]>>
             ELSE <<>>

Without(fetches, i) == SubSeq(fetches, 1, i - 1) \o SubSeq(fetches, i + 1, Len(fetches))

\* loadArtwork after the await: request i was answered
ListResponse(i) ==
    /\ i \in 1..Len(list.fetches)
    /\ LET f == list.fetches[i] IN
       /\ list' = [list EXCEPT !.fetches = Without(@, i),
                               !.artwork = IF f.append THEN @ \o PageOf(f) ELSE PageOf(f),
                               !.hasMore = f.page < MaxPages,
                               !.loading = FALSE, !.loadingMore = FALSE]
       /\ met' = IF f.append THEN met ELSE [met EXCEPT !.selectedIds = {}]
    /\ UNCHANGED <<gateway, scan, modal, batch, drag>>

\* loadArtwork after the await: request i threw
ListFailed(i) ==
    /\ i \in 1..Len(list.fetches)
    /\ list' = [list EXCEPT !.fetches = Without(@, i),
                            !.loading = FALSE, !.loadingMore = FALSE]
    /\ UNCHANGED <<gateway, scan, frontend, batch, drag>>

ListNext ==
    \/ MountPanel
    \/ \E text \in SearchTexts : onSearchInput(text)
    \/ ListElapse
    \/ DebounceFire
    \/ SubmitSearch
    \/ clearSearch
    \/ \E medium \in Media : onFilterChange(medium)
    \/ loadMore
    \/ \E i \in 1..(MaxLoads + MaxKeys) : ListResponse(i)
    \/ \E i \in 1..(MaxLoads + MaxKeys) : ListFailed(i)

ListSpec == DiscoverInit /\ [][ListNext]_vars

\* C32: the list shows the latest query only: every entry of the grid was
\* fetched for the search text and the medium that are selected now.
C32_ListReflectsLatestQuery ==
    \A i \in 1..Len(list.artwork) :
        /\ list.artwork[i].q = list.activeSearch
        /\ list.artwork[i].medium = list.selectedMedium

\* the page numbers of the grid's entries, in the order shown
PagesShown == [i \in 1..Len(list.artwork) |-> list.artwork[i].page]

\* C35: once every load has settled after some loadMore, the grid holds the
\* pages 1..currentPage in order, none skipped and none twice.
C35_PagesInOrder ==
    (list.fetches = <<>> /\ list.currentPage > 1)
        => PagesShown = [i \in 1..list.currentPage |-> i]

\* A step in which the debounce timer's callback ran.
TimerSearched ==
    /\ Len(list'.fetches) = Len(list.fetches) + 1
    /\ list'.fetches[Len(list'.fetches)].by = "timer"

\* A step in which the search was submitted with Enter or cleared.
SubmittedOrCleared ==
    /\ Len(list'.fetches) = Len(list.fetches) + 1
    /\ list'.fetches[Len(list'.fetches)].by \in {"enter", "clear"}

\* C39: typing is debounced: never more than one debounce timer is pending;
\* each keystroke restarts the 500 ms; the timer's callback runs 500 ms after
\* the last keystroke and issues one search for the text the box holds then
\* (trimmed); Enter and the clear button leave no timer pending.
C39_SearchIsDebounced ==
    /\ [](Len(list.timers) <= 1)
    /\ [][list'.keys # list.keys
          => list'.timers = <<[id |-> list'.handle, elapsed |-> 0]>>]_vars
    /\ [][TimerSearched
          => /\ list.timers = <<[id |-> list.handle, elapsed |-> DEBOUNCE_MS]>>
             /\ list'.timers = <<>> /\ list'.handle = 0
             /\ list'.activeSearch = Trim(list.searchQuery)
             /\ list'.fetches[Len(list'.fetches)].q = Trim(list.searchQuery)
             /\ list'.fetches[Len(list'.fetches)].page = 1]_vars
    /\ [][SubmittedOrCleared => list'.timers = <<>> /\ list'.handle = 0]_vars

\* A burst of keystrokes ended in one search from the timer, for the trimmed
\* text, and nothing is pending.
C39_Witness ==
    /\ list.keys >= 2 /\ list.timers = <<>>
    /\ list.searchQuery = <<"m", "o", " ">>
    /\ \E i \in 1..Len(list.fetches) :
        list.fetches[i].by = "timer" /\ list.fetches[i].q = <<"m", "o">>
    /\ Cardinality({i \in 1..Len(list.fetches) : list.fetches[i].by = "timer"}) = 1

\* C33: the dialog has one connect request in flight at most, whoever asked
\* for it, and connecting is true exactly while that request is pending.
C33_OneConnectRequestAtATime ==
    /\ Len(modal.posts) <= 1
    /\ modal.connecting <=> modal.posts # <<>>

\* A connect request is pending while the auto-select timer is due and a
\* second TV could be clicked.
C33_Witness ==
    /\ modal.connecting /\ Len(modal.posts) = 1
    /\ \E i \in 1..Len(modal.timers) : modal.timers[i] >= AUTO_SELECT_DELAY

\* C34: the auto-select sends nothing once the dialog is gone: every
\* automatic connect request was sent while the dialog was shown and before
\* 'connected' was emitted.
C34_NoAutoConnectAfterCloseOrConnect ==
    \A i \in AutoPosts : modal.posts[i].open /\ ~modal.posts[i].connected

\* C36: the panel clears the selection and emits 'uploaded' only for an
\* upload that succeeded: when an upload settles with anything but a 200,
\* the selection stays as it was and nothing is emitted.
C36_UploadedOnlyOnSuccess ==
    [][(Len(met'.posts) < Len(met.posts) /\ met'.answered # 200)
       => met'.selectedIds = met.selectedIds /\ met'.uploaded = met.uploaded]_vars

\* ======================================== MetClient.batch_fetch_objects_async
\* the call: one fetch_one task per id, handed to asyncio.gather
BatchCall(n) ==
    /\ ~batch.called
    /\ batch' = [batch EXCEPT !.called = TRUE, !.ids = 1..n, !.sem = max_concurrent,
                              !.at = [id \in 1..MaxIds |->
                                         IF id <= n THEN "waiting" ELSE "idle"]]
    /\ UNCHANGED <<gateway, scan, frontend, list, drag>>

\* fetch_one entering "async with semaphore" although no permit is left
AcquireSem_Unlimited(id) ==
    /\ batch.at[id] = "waiting"
    /\ batch' = [batch EXCEPT !.at[id] = "running", !.sem = @ - 1]
    /\ UNCHANGED <<gateway, scan, frontend, list, drag>>

\* fetch_one: async with semaphore, then to_thread(self.get_object, obj_id)
AcquireSem(id) ==
    /\ batch.at[id] = "waiting" /\ batch.sem > 0
    /\ batch' = [batch EXCEPT !.at[id] = "running", !.sem = @ - 1]
    /\ UNCHANGED <<gateway, scan, frontend, list, drag>>

\* get_object ended in its thread; leaving the with block frees the permit
FetchOneEnds(id, outcome) ==
    /\ batch.at[id] = "running"
    /\ batch' = [batch EXCEPT !.at[id] = "done", !.got[id] = outcome, !.sem = @ + 1]
    /\ UNCHANGED <<gateway, scan, frontend, list, drag>>

\* gather has every result: the objects with an image are normalised and returned
GatherReturns ==
    /\ batch.called /\ batch.ended = None
    /\ \A id \in batch.ids : batch.at[id] = "done" /\ batch.got[id] # "raise"
    /\ batch' = [batch EXCEPT !.ended = "returned",
                              !.processed = {id \in batch.ids : batch.got[id] = "object"}]
    /\ UNCHANGED <<gateway, scan, frontend, list, drag>>

\* gather passes the first exception on at once; the other tasks run on
GatherRaises ==
    /\ batch.called /\ batch.ended = None
    /\ \E id \in batch.ids : batch.got[id] = "raise"
    /\ batch' = [batch EXCEPT !.ended = "raised"]
    /\ UNCHANGED <<gateway, scan, frontend, list, drag>>

BatchNext ==
    \/ \E n \in 0..MaxIds : BatchCall(n)
    \/ \E id \in 1..MaxIds : AcquireSem(id)
    \/ \E id \in 1..MaxIds, outcome \in Outcomes : FetchOneEnds(id, outcome)
    \/ GatherReturns
    \/ GatherRaises

BatchSpec == DiscoverInit /\ [][BatchNext]_vars

\* the get_object calls under way
InFlight == {id \in batch.ids : batch.at[id] = "running"}

\* C37: never more than max_concurrent object fetches are in flight, and the
\* call returns only when every requested id has been attempted.
C37_BoundedConcurrencyAndAllAttempted ==
    /\ Cardinality(InFlight) <= max_concurrent
    /\ batch.ended = "returned" => \A id \in batch.ids : batch.at[id] = "done"

\* The limit is reached while further ids wait for a permit.
C37_Witness ==
    /\ Cardinality(InFlight) = max_concurrent
    /\ \E id \in batch.ids : batch.at[id] = "waiting"

\* ============================================= PreviewModal.vue: reframing
Min(a, b) == IF a < b THEN a ELSE b
Max(a, b) == IF a > b THEN a ELSE b

\* Math.max(0, Math.min(1, v)), in thousandths
Clamp(v) == Max(0, Min(Unit, v))

\* imgRatio > TARGET_RATIO, for a w x h image
WiderThanTarget(w, h) == w * RATIO_H > RATIO_W * h

\* onDrag: how far the crop window can move on the canvas, <<x, y>> in canvas
\* pixels; with no image loaded the ratio is NaN and so is every product of it
maxOffset(w, h) ==
    LET wide == w * CANVAS_HEIGHT > CANVAS_WIDTH * h
        imgDisplayWidth == IF wide THEN CANVAS_WIDTH ELSE (CANVAS_HEIGHT * w) \div h
        imgDisplayHeight == IF wide THEN (CANVAS_WIDTH * h) \div w ELSE CANVAS_HEIGHT
        cropWidth == IF WiderThanTarget(w, h)
                     THEN (imgDisplayHeight * RATIO_W) \div RATIO_H
                     ELSE imgDisplayWidth
        cropHeight == IF WiderThanTarget(w, h)
                      THEN imgDisplayHeight
                      ELSE (imgDisplayWidth * RATIO_H) \div RATIO_W
    IN  <<imgDisplayWidth - cropWidth, imgDisplayHeight - cropHeight>>

\* loadOriginalImage: the image is requested and the offsets go back to centre
loadOriginalImage(picture) ==
    /\ drag' = [drag EXCEPT !.src = picture, !.offsetX = Unit \div 2,
                            !.offsetY = Unit \div 2]
    /\ UNCHANGED <<gateway, scan, frontend, list, batch>>

onImageLoad ==
    /\ drag.src # <<0, 0>>
    /\ drag' = [drag EXCEPT !.imageNaturalWidth = drag.src[1],
                            !.imageNaturalHeight = drag.src[2]]
    /\ UNCHANGED <<gateway, scan, frontend, list, batch>>

startDrag(x, y) ==
    /\ drag.drags < MaxDrags
    /\ drag' = [drag EXCEPT !.isDragging = TRUE, !.drags = @ + 1,
                            !.dragStartX = x, !.dragStartY = y,
                            !.dragStartOffsetX = drag.offsetX,
                            !.dragStartOffsetY = drag.offsetY]
    /\ UNCHANGED <<gateway, scan, frontend, list, batch>>

\* the offsets onDrag would assign without Math.max / Math.min
Dragged_Unclamped(d, x, y) ==
    IF d.imageNaturalWidth = 0 \/ d.imageNaturalHeight = 0 THEN d
    ELSE LET m == maxOffset(d.imageNaturalWidth, d.imageNaturalHeight)
         IN  [d EXCEPT !.offsetX = IF m[1] > 0
                                   THEN d.dragStartOffsetX
                                        + ((x - d.dragStartX) * Unit) \div m[1]
                                   ELSE @,
                       !.offsetY = IF m[2] > 0
                                   THEN d.dragStartOffsetY
                                        + ((y - d.dragStartY) * Unit) \div m[2]
                                   ELSE @]

\* the offsets onDrag assigns for a pointer at <<x, y>>
Dragged(d, x, y) ==
    IF d.imageNaturalWidth = 0 \/ d.imageNaturalHeight = 0 THEN d
    ELSE LET m == maxOffset(d.imageNaturalWidth, d.imageNaturalHeight)
         IN  [d EXCEPT !.offsetX = IF m[1] > 0
                                   THEN Clamp(d.dragStartOffsetX
                                              + ((x - d.dragStartX) * Unit) \div m[1])
                                   ELSE @,
                       !.offsetY = IF m[2] > 0
                                   THEN Clamp(d.dragStartOffsetY
                                              + ((y - d.dragStartY) * Unit) \div m[2])
                                   ELSE @]

onDrag(x, y) ==
    /\ drag.isDragging
    /\ drag' = Dragged(drag, x, y)
    /\ UNCHANGED <<gateway, scan, frontend, list, batch>>

\* stopDrag: emit('offset-change', path, offsetX, offsetY)
stopDrag ==
    /\ drag.isDragging
    /\ drag' = [drag EXCEPT !.isDragging = FALSE,
                            !.emitted = <<drag.offsetX, drag.offsetY>>]
    /\ UNCHANGED <<gateway, scan, frontend, list, batch>>

DragNext ==
    \/ \E picture \in Pictures : loadOriginalImage(picture)
    \/ onImageLoad
    \/ \E x \in Points, y \in Points : startDrag(x, y)
    \/ \E x \in Points, y \in Points : onDrag(x, y)
    \/ stopDrag

DragSpec == DiscoverInit /\ [][DragNext]_vars

\* _reframe_image(img, offset_x, offset_y): the box handed to img.crop
reframe_box(w, h, ox, oy) ==
    IF WiderThanTarget(w, h)
    THEN LET new_w == (h * RATIO_W) \div RATIO_H
             left == ((w - new_w) * ox) \div Unit
         IN  [left |-> left, top |-> 0, right |-> left + new_w, bottom |-> h]
    ELSE LET new_h == (w * RATIO_H) \div RATIO_W
             top == ((h - new_h) * oy) \div Unit
         IN  [left |-> 0, top |-> top, right |-> w, bottom |-> top + new_h]

\* imageStyle: the image, scaled to fill the 16:9 viewport and shifted by the
\* offsets, covers the viewport on both axes
FrameCovered(w, h, ox, oy) ==
    LET viewportWidth == CANVAS_WIDTH
        viewportHeight == (viewportWidth * RATIO_H) \div RATIO_W
        imgDisplayWidth == IF WiderThanTarget(w, h) THEN (viewportHeight * w) \div h
                           ELSE viewportWidth
        imgDisplayHeight == IF WiderThanTarget(w, h) THEN viewportHeight
                            ELSE (viewportWidth * h) \div w
        translateX == 0 - ((imgDisplayWidth - viewportWidth) * ox) \div Unit
        translateY == 0 - ((imgDisplayHeight - viewportHeight) * oy) \div Unit
    IN  /\ translateX <= 0 /\ translateX + imgDisplayWidth >= viewportWidth
        /\ translateY <= 0 /\ translateY + imgDisplayHeight >= viewportHeight

\* C38: whatever was dragged, both offsets are within [0, 1]; the frame is
\* covered by the image and the crop box lies inside the image.
C38_OffsetsStayInRange ==
    /\ drag.offsetX \in 0..Unit /\ drag.offsetY \in 0..Unit
    /\ drag.imageNaturalWidth # 0 =>
        LET w == drag.imageNaturalWidth
            h == drag.imageNaturalHeight
            box == reframe_box(w, h, drag.offsetX, drag.offsetY)
        IN  /\ FrameCovered(w, h, drag.offsetX, drag.offsetY)
            /\ 0 <= box.left /\ box.left < box.right /\ box.right <= w
            /\ 0 <= box.top /\ box.top < box.bottom /\ box.bottom <= h

\* A drag far past the edge ended with the offset held at the edge.
C38_Witness ==
    /\ ~drag.isDragging /\ drag.drags > 0
    /\ drag.imageNaturalWidth = 3200
    /\ drag.offsetX = Unit /\ drag.emitted = <<Unit, Unit \div 2>>
====
